---- MODULE Spec2Model ----
(***************************************************************************)
(* Model of AbstractTable.py (Dynamical Billiards): the Ball data holder,  *)
(* the AbstractTable stepping loop (stepall), the configuration handling   *)
(* (constructor, update) and the run set-up (main, animate,                *)
(* generatePreview).                                                       *)
(*                                                                         *)
(* Numbers.  Positions are kept in units of 1/TicksPerUnit of a table     *)
(* unit and a time increment dt is kept as the integer dt*TicksPerUnit,    *)
(* so that main's dt = 1/30 is the increment 1 and dt = 1 is the           *)
(* increment 30; velocities are in table units per time unit.  With this   *)
(* scaling  state[0] += dt * state[2]  is  x' = x + dt*vx  on integers.    *)
(* Floating-point rounding is not modelled.                                *)
(*                                                                         *)
(* Python lists are objects: a Ball's state is a reference to the list the *)
(* caller put in the configuration.  The model keeps the lists in a heap   *)
(* (a sequence indexed by reference), and Ball.state and                   *)
(* parameters['balls']['Ball i'] hold references into it.                  *)
(***************************************************************************)
EXTENDS Integers, Sequences, FiniteSets, TLC

VARIABLES
    hasStep,     \* the concrete table class overrides step
    hasDraw,     \* the concrete table class overrides drawTable
    heap,        \* the state lists [x, y, vx, vy], by reference
    supplied,    \* history: the value each list had when the caller supplied it
    parameters,  \* self.parameters
    nBalls,      \* self.nBalls
    ballList,    \* self.ballList: Ball objects [color, state (a reference)]
    pathx,       \* self.pathx
    pathy,       \* self.pathy
    figure,      \* self.fig / self.ax / self.table made by drawTable, or NoFig
    particles,   \* the data main/animate put in the particle artists
    preview,     \* the points generatePreview plotted
    pc,          \* "idle", or "running" while main is inside plt.show()
    err,         \* the exception the last call raised, or "none"
    lastOp,      \* history: the last call and its argument
    stepLog,     \* history: one record per step call of the last stepall
    runBase,     \* history: Len(ballList) when the last main was entered
    nTicks,      \* history: number of stepall calls so far
    nUpdates,    \* history: number of update calls so far
    nRuns        \* history: number of main calls so far

vars == <<hasStep, hasDraw, heap, supplied, parameters, nBalls, ballList,
          pathx, pathy, figure, particles, preview, pc, err, lastOp,
          stepLog, runBase, nTicks, nUpdates, nRuns>>

----------------------------------------------------------------------------
(* Bounds of the model *)

MaxTicks == 3
MaxUpdates == 1
MaxRuns == 2

(* Program constants *)

\* main: dt = 1 / 30
TicksPerUnit == 30

\* the circular table of the specification's scenario: radius 10
Radius == 10

R == Radius * TicksPerUnit

\* AbstractTable.__init__: self.colorlist
colorlist == <<"r", "g", "b", "y">>

NoFig == [drawn |-> FALSE]

----------------------------------------------------------------------------
(* Caller inputs *)

\* lists [x, y, vx, vy] on radial lattice trajectories of the circle
InsideA == <<270, 0, 3, 0>>
InsideB == <<0, 0, -6, -8>>
InsideC == <<90, 120, 3, 4>>
OutsideA == <<330, 0, -3, 0>>

\* configuration bundles: nBalls, balls 'Ball 1'..'Ball n', trace
Configs ==
    { [nBalls |-> 1, balls |-> <<InsideA>>, trace |-> FALSE,
       playbackSpeed |-> 1],
      [nBalls |-> 2, balls |-> <<InsideB, InsideC>>, trace |-> TRUE,
       playbackSpeed |-> 1],
      [nBalls |-> 1, balls |-> <<OutsideA>>, trace |-> TRUE,
       playbackSpeed |-> 1] }

\* the increment a tick source other than the animation passes to stepall:
\* dt = 1 (the animation passes 1/30)
DtSet == {TicksPerUnit}

----------------------------------------------------------------------------
(* Ball *)

\* Ball.__init__: state is the very list passed as initstate
Ball(color, initstate) == [color |-> color, state |-> initstate]

----------------------------------------------------------------------------
(* The circular table: the step a concrete table implements *)

Sq(a) == a * a

Abs(a) == IF a < 0 THEN -a ELSE a

RECURSIVE Gcd(_, _)
Gcd(a, b) == IF b = 0 THEN a ELSE Gcd(b, a % b)

\* boundary test of the circular table: distance from the centre vs. radius
Outside(s) == Sq(s[1]) + Sq(s[2]) > Sq(R)

\* specular law v' = v - 2(v.n)n, n the unit normal along the point nrm
Reflect(v, nrm) ==
    LET nn == Sq(nrm[1]) + Sq(nrm[2])
        vn == v[1] * nrm[1] + v[2] * nrm[2]
    IN  IF nn = 0 THEN v
        ELSE <<v[1] - ((2 * vn * nrm[1]) \div nn),
               v[2] - ((2 * vn * nrm[2]) \div nn)>>

\* search of the crossing over [0, dt]: the earliest point of the segment
\* from the pre-step position to s at which the path meets the circle, or
\* <<>> when the search finds none
Crossing(s, dt) ==
    LET dx == dt * s[3]
        dy == dt * s[4]
        px == s[1] - dx
        py == s[2] - dy
        g  == Gcd(Abs(dx), Abs(dy))
        J  == IF g = 0 THEN {}
              ELSE {j \in 0..g :
                      Sq(px + j * (dx \div g)) + Sq(py + j * (dy \div g))
                          = Sq(R)}
    IN  IF J = {} THEN <<>>
        ELSE LET j == CHOOSE k \in J : \A m \in J : k <= m
             IN  <<px + j * (dx \div g), py + j * (dy \div g)>>

\* step of the circular table: a ball found outside is put back on the
\* crossing point and its velocity reflected there; when the search finds
\* no crossing the velocity is reflected at the ball's position
circleStep(h, ref, dt) ==
    LET s == h[ref]
        c == Crossing(s, dt)
        v == <<s[3], s[4]>>
    IN  IF ~Outside(s) THEN h
        ELSE IF c # <<>>
             THEN LET w == Reflect(v, c)
                  IN  [h EXCEPT ![ref] = <<c[1], c[2], w[1], w[2]>>]
             ELSE LET w == Reflect(v, <<s[1], s[2]>>)
                  IN  [h EXCEPT ![ref] = <<s[1], s[2], w[1], w[2]>>]

\* drawTable of a concrete table: makes the figure, the axes and the table
\* patch with the given edge colour
concreteDrawTable(ec) == [drawn |-> TRUE, ec |-> ec, lw |-> 1]

----------------------------------------------------------------------------
(* AbstractTable *)

\* AbstractTable.step: return None
baseStep(h, ref, dt) == h

\* AbstractTable.drawTable: return None
baseDrawTable(ec) == figure

\* self.step(particle, dt): the override when the class has one
step(h, ref, dt) ==
    IF hasStep THEN circleStep(h, ref, dt) ELSE baseStep(h, ref, dt)

\* self.drawTable(ec)
drawTable(ec) ==
    IF hasDraw THEN concreteDrawTable(ec) ELSE baseDrawTable(ec)

\* a slip of index: the second update adds to state[2] instead of state[1]
IntegrateIndexSlip(h, ref, dt) ==
    [h EXCEPT ![ref] = <<@[1] + dt * @[3], @[2], @[3] + dt * @[4], @[4]>>]

\* stepall, lines 65-66: state[0] += dt*state[2]; state[1] += dt*state[3]
Integrate(h, ref, dt) ==
    [h EXCEPT ![ref] = <<@[1] + dt * @[3], @[2] + dt * @[4], @[3], @[4]>>]

\* the loop body with step called before the position is advanced
StepOneStepFirst(h, ref, dt) ==
    [heap |-> Integrate(step(h, ref, dt), ref, dt), seen |-> h[ref]]

\* the loop body without the call of step
StepOneNoStep(h, ref, dt) ==
    LET moved == Integrate(h, ref, dt)
    IN  [heap |-> moved, seen |-> moved[ref]]

\* stepall, the loop body for one particle; seen is the state step is
\* handed
StepOne(h, ref, dt) ==
    LET moved == Integrate(h, ref, dt)
    IN  [heap |-> step(moved, ref, dt), seen |-> moved[ref]]

\* stepall: for particle in self.ballList, from index i on
RECURSIVE stepallFrom(_, _, _, _)
stepallFrom(h, log, i, dt) ==
    IF i > Len(ballList) THEN [heap |-> h, log |-> log]
    ELSE LET ref == ballList[i].state
             r   == StepOne(h, ref, dt)
         IN  stepallFrom(r.heap,
                 Append(log, [ball |-> i, ref |-> ref, before |-> heap[ref],
                              seen |-> r.seen, after |-> r.heap[ref]]),
                 i + 1, dt)

stepall(dt) == stepallFrom(heap, <<>>, 1, dt)

\* the ball is made but not added to the list
appendBallDropped(bl, i) == bl

\* main, lines 120-121: self.ballList.append(Ball(color=..., initstate=...))
appendBall(bl, i) ==
    Append(bl, Ball(colorlist[i + 1], parameters.balls[i + 1]))

\* main, lines 118-128: the loop that makes the balls, from index i on
\* (i counts from 0 as in the code); it stops at the first exception
RECURSIVE mainLoop(_, _, _, _, _)
mainLoop(bl, px, py, parts, i) ==
    IF i >= nBalls
    THEN [ballList |-> bl, pathx |-> px, pathy |-> py, particles |-> parts,
          err |-> "none"]
    ELSE IF i + 1 > Len(colorlist)
    THEN [ballList |-> bl, pathx |-> px, pathy |-> py, particles |-> parts,
          err |-> "IndexError"]
    ELSE IF i + 1 > Len(parameters.balls)
    THEN [ballList |-> bl, pathx |-> px, pathy |-> py, particles |-> parts,
          err |-> "KeyError"]
    ELSE LET bl2 == appendBall(bl, i)
         IN  IF ~drawTable("none").drawn
             THEN [ballList |-> bl2, pathx |-> px, pathy |-> py,
                   particles |-> parts, err |-> "AttributeError"]
             ELSE mainLoop(bl2, Append(px, <<>>), Append(py, <<>>),
                           Append(parts, <<>>), i + 1)

\* generatePreview, lines 81-85: the points plotted, from index i on
RECURSIVE previewLoop(_, _)
previewLoop(pts, i) ==
    IF i >= nBalls THEN [points |-> pts, err |-> "none"]
    ELSE IF i + 1 > Len(colorlist) THEN [points |-> pts, err |-> "IndexError"]
    ELSE IF i + 1 > Len(parameters.balls)
    THEN [points |-> pts, err |-> "KeyError"]
    ELSE LET b == Ball(colorlist[i + 1], parameters.balls[i + 1])
         IN  IF ~drawTable("k").drawn
             THEN [points |-> pts, err |-> "AttributeError"]
             ELSE previewLoop(
                      Append(pts, <<heap[b.state][1], heap[b.state][2]>>),
                      i + 1)

\* animate, lines 159-164: the trace of the first nBalls balls of ballList
tracePath(path, k) ==
    IF parameters.trace
    THEN [i \in 1..Len(path) |->
             IF i <= nBalls THEN Append(path[i], heap[ballList[i].state][k])
             ELSE path[i]]
    ELSE path

\* animate, lines 170-172: set_data of the first nBalls balls of ballList
setData(h) ==
    [i \in 1..nBalls |-> <<h[ballList[i].state][1], h[ballList[i].state][2]>>]

----------------------------------------------------------------------------
(* Construction *)

\* the lists of a bundle get the references base+1 .. base+n
Refs(cfg, base) == [i \in 1..Len(cfg.balls) |-> base + i]

\* the kwargs dictionary: the bundle with its lists held by reference
Kwargs(cfg, base) ==
    [nBalls |-> cfg.nBalls, balls |-> Refs(cfg, base), trace |-> cfg.trace,
     playbackSpeed |-> cfg.playbackSpeed]

\* AbstractTable.__init__(**kwargs) of a concrete class
Init ==
    \E cfg \in Configs :
        /\ hasStep \in BOOLEAN
        /\ hasDraw \in BOOLEAN
        /\ heap = cfg.balls
        /\ supplied = cfg.balls
        /\ parameters = Kwargs(cfg, 0)
        /\ nBalls = Kwargs(cfg, 0).nBalls
        /\ ballList = <<>>
        /\ pathx = <<>>
        /\ pathy = <<>>
        /\ figure = NoFig
        /\ particles = <<>>
        /\ preview = <<>>
        /\ pc = "idle"
        /\ err = "none"
        /\ lastOp = [op |-> "__init__", dt |-> 0]
        /\ stepLog = <<>>
        /\ runBase = 0
        /\ nTicks = 0
        /\ nUpdates = 0
        /\ nRuns = 0

----------------------------------------------------------------------------
(* Operations *)

\* update(**kwargs): self.parameters = kwargs
Update(cfg) ==
    /\ pc = "idle"
    /\ nUpdates < MaxUpdates
    /\ heap' = heap \o cfg.balls
    /\ supplied' = supplied \o cfg.balls
    /\ parameters' = Kwargs(cfg, Len(heap))
    /\ err' = "none"
    /\ lastOp' = [op |-> "update", dt |-> 0]
    /\ nUpdates' = nUpdates + 1
    /\ UNCHANGED <<hasStep, hasDraw, nBalls, ballList, pathx, pathy, figure,
                   particles, preview, pc, stepLog, runBase, nTicks, nRuns>>

\* main(): up to plt.show(); an exception ends the call.  plt.close('all')
\* closes the figure generatePreview plotted on.
Main ==
    /\ pc = "idle"
    /\ nRuns < MaxRuns
    /\ LET fig == drawTable("none")
           r   == mainLoop(ballList, <<>>, <<>>, <<>>, 0)
           e   == IF r.err = "none" /\ ~fig.drawn THEN "AttributeError"
                  ELSE r.err
       IN  /\ figure' = fig
           /\ ballList' = r.ballList
           /\ pathx' = r.pathx
           /\ pathy' = r.pathy
           /\ particles' = r.particles
           /\ err' = e
           /\ pc' = IF e = "none" THEN "running" ELSE "idle"
    /\ preview' = <<>>
    /\ lastOp' = [op |-> "main", dt |-> 0]
    /\ runBase' = Len(ballList)
    /\ nRuns' = nRuns + 1
    /\ UNCHANGED <<hasStep, hasDraw, heap, supplied, parameters, nBalls,
                   stepLog, nTicks, nUpdates>>

\* main.init: the animation's init_func, run before the first frame
AnimInit ==
    /\ pc = "running"
    /\ lastOp.op = "main"
    /\ particles' = [i \in 1..Len(particles) |-> <<>>]
    /\ figure' = [figure EXCEPT !.ec = "none"]
    /\ lastOp' = [op |-> "init", dt |-> 0]
    /\ UNCHANGED <<hasStep, hasDraw, heap, supplied, parameters, nBalls,
                   ballList, pathx, pathy, preview, pc, err, stepLog, runBase,
                   nTicks, nUpdates, nRuns>>

\* main.animate(k): one frame of the animation
Animate ==
    /\ pc = "running"
    /\ nTicks < MaxTicks
    /\ LET r == stepall(1)
       IN  /\ pathx' = tracePath(pathx, 1)
           /\ pathy' = tracePath(pathy, 2)
           /\ heap' = r.heap
           /\ stepLog' = r.log
           /\ figure' = [figure EXCEPT !.ec = "k"]
           /\ particles' = setData(r.heap)
    /\ err' = "none"
    /\ lastOp' = [op |-> "animate", dt |-> 1]
    /\ nTicks' = nTicks + 1
    /\ UNCHANGED <<hasStep, hasDraw, supplied, parameters, nBalls, ballList,
                   preview, pc, runBase, nUpdates, nRuns>>

\* plt.show() returns: the window was closed and main ends
ShowReturns ==
    /\ pc = "running"
    /\ pc' = "idle"
    /\ lastOp' = [op |-> "show", dt |-> 0]
    /\ UNCHANGED <<hasStep, hasDraw, heap, supplied, parameters, nBalls,
                   ballList, pathx, pathy, figure, particles, preview, err,
                   stepLog, runBase, nTicks, nUpdates, nRuns>>

\* stepall(dt) called by a tick source other than the animation
Tick(dt) ==
    /\ pc = "idle"
    /\ nTicks < MaxTicks
    /\ LET r == stepall(dt)
       IN  /\ heap' = r.heap
           /\ stepLog' = r.log
    /\ err' = "none"
    /\ lastOp' = [op |-> "stepall", dt |-> dt]
    /\ nTicks' = nTicks + 1
    /\ UNCHANGED <<hasStep, hasDraw, supplied, parameters, nBalls, ballList,
                   pathx, pathy, figure, particles, preview, pc, runBase,
                   nUpdates, nRuns>>

\* generatePreview()
GeneratePreview ==
    /\ pc = "idle"
    /\ LET fig == drawTable("k")
           r   == previewLoop(<<>>, 0)
           e   == IF r.err = "none" /\ ~fig.drawn THEN "AttributeError"
                  ELSE r.err
       IN  /\ preview' = r.points
           /\ err' = e
           /\ figure' = IF e = "none" THEN [fig EXCEPT !.lw = 6] ELSE fig
    /\ lastOp' = [op |-> "generatePreview", dt |-> 0]
    /\ UNCHANGED <<hasStep, hasDraw, heap, supplied, parameters, nBalls,
                   ballList, pathx, pathy, particles, pc, stepLog, runBase,
                   nTicks, nUpdates, nRuns>>

Next ==
    \/ \E cfg \in Configs : Update(cfg)
    \/ Main
    \/ AnimInit
    \/ Animate
    \/ ShowReturns
    \/ \E dt \in DtSet : Tick(dt)
    \/ GeneratePreview

Spec == Init /\ [][Next]_vars

----------------------------------------------------------------------------
(* Properties *)

IsTick == lastOp.op \in {"stepall", "animate"}

Pos(s) == <<s[1], s[2]>>

Vel(s) == <<s[3], s[4]>>

Speed2(s) == Sq(s[3]) + Sq(s[4])

Advanced(s, dt) == <<s[1] + dt * s[3], s[2] + dt * s[4], s[3], s[4]>>

StrictlyInside(s) == Sq(s[1]) + Sq(s[2]) < Sq(R)

\* the references 'Ball 1'..'Ball nBalls' a run or a preview reads
ReadRefs ==
    {parameters.balls[i] : i \in 1..(IF nBalls < Len(parameters.balls)
                                     THEN nBalls ELSE Len(parameters.balls))}

\* a table whose class implements both step and drawTable
Concrete == hasStep /\ hasDraw

\* C1: in every stepall call step is called exactly once for every ball of
\* ballList, and the position it is handed is the ball's position before
\* the call plus its velocity before the call times dt.
C1_StepSeesPreTickPlusVdt ==
    (Concrete /\ IsTick) =>
        /\ Len(stepLog) = Len(ballList)
        /\ \A k \in 1..Len(stepLog) :
              /\ stepLog[k].ball = k
              /\ stepLog[k].seen = Advanced(stepLog[k].before, lastOp.dt)

\* C2: a ball whose straight path over dt crosses no boundary has, after
\* one stepall(dt), its velocity unchanged and its position advanced by
\* velocity*dt exactly once.
C2_NoCrossAdvancedOnce ==
    (Concrete /\ IsTick) =>
        \A k \in 1..Len(stepLog) :
            (/\ ~Outside(stepLog[k].before)
             /\ ~Outside(Advanced(stepLog[k].before, lastOp.dt)))
            => heap[stepLog[k].ref] = Advanced(stepLog[k].before, lastOp.dt)

\* C3: after any number of ticks the speed of every ball equals the speed
\* of the initial state it was configured with.
C3_SpeedConserved ==
    \A i \in 1..Len(ballList) :
        Speed2(heap[ballList[i].state]) = Speed2(supplied[ballList[i].state])

\* C3 witness: ticks have run and a ball's velocity has been reflected
C3_Witness ==
    /\ nTicks >= 2
    /\ \E i \in 1..Len(ballList) :
          Vel(heap[ballList[i].state]) # Vel(supplied[ballList[i].state])

C6_RunOwnsItsBalls ==
    pc = "running" =>
        /\ Len(ballList) = nBalls
        /\ runBase = 0
        /\ \A i \in 1..nBalls :
              /\ i <= Len(ballList)
              /\ ballList[i] = Ball(colorlist[i], parameters.balls[i])

\* C7: stepall leaves the configuration untouched: every initial state
\* held in parameters equals the value the caller supplied, and a preview
\* plots the configured initial positions.
C7_ConfigurationNotAliased ==
    Concrete =>
        /\ \A i \in 1..Len(parameters.balls) :
              heap[parameters.balls[i]] = supplied[parameters.balls[i]]
        /\ (lastOp.op = "generatePreview" /\ err = "none") =>
              \A i \in 1..Len(preview) :
                  preview[i] = Pos(supplied[parameters.balls[i]])

C9_MissingOverrideFatal ==
    /\ (~hasStep /\ IsTick /\ Len(stepLog) > 0) => err # "none"
    /\ (~hasDraw /\ lastOp.op \in {"main", "generatePreview"}) => err # "none"

\* C10: main instantiates, and generatePreview plots, as many balls as the
\* nBalls of the configuration supplied last.
C10_CountFollowsConfiguration ==
    Concrete =>
        /\ lastOp.op = "main" => Len(ballList) - runBase = parameters.nBalls
        /\ lastOp.op = "generatePreview" => Len(preview) = parameters.nBalls

====
